---- MODULE Spec2Model ----
(***************************************************************************)
(* loadlog.py: a controller that writes a header to a log file, samples    *)
(* system load before, during and after a child command, and appends one   *)
(* entry per sample.  The model follows the script statement by statement, *)
(* with the exceptions Python raises at each statement.                    *)
(***************************************************************************)
EXTENDS Integers, Sequences, FiniteSets, TLC

\* ---------------------------------------------------------------- bounds
MaxWait == 1        \* --prewait / --postwait range over 0..MaxWait
MaxInterval == 2    \* --interval ranges over 0..MaxInterval
MaxCores == 2       \* psutil.cpu_count(logical=True) ranges over 1..MaxCores
MaxClock == 2       \* wall clock ranges over 0..MaxClock

\* default of log_entry's cpu_logical_count parameter
DefaultCores == 8

\* ---------------------------------------------------------------- inputs
\* Classes of args.command: not launchable, exits by itself, runs forever.
Commands == {"invalid", "exits", "forever"}

\* What running `istats` would do: print readings, be missing, print
\* nothing, or print CPU/Fan lines without a decimal number.
SensorStates == {"ok", "absent", "silent", "garbled"}

\* Exceptions that come from the environment rather than from the script.
EnvErrors == {"PsutilError", "OSError", "FileNotFoundError"}

VARIABLES
    args,        \* argparse namespace: command, prewait, interval, postwait, advanced
    sensor,      \* state of the istats tool on this machine
    pc,          \* line of __main__ about to execute, or "exit"
    s,           \* the sampler object built at line 137
    log,         \* content of args.logfile, a sequence of blocks/lines
    raised,      \* the uncaught exception that ended the process, if any
    exitStatus,  \* process exit status, meaningful when pc = "exit"
    clock,       \* wall clock read by datetime.datetime.now()
    calls        \* number of now() calls and of istats invocations so far

vars == <<args, sensor, pc, s, log, raised, exitStatus, clock, calls>>

NoExc == [exc |-> "none", line |-> 0]

\* Attributes set by stats.__init__
InitAttrs == {"computer", "command", "cpu_physical_count",
              "cpu_logical_count", "total_memory"}

\* Attributes set by the psutil block of now()
MetricAttrs == {"percpu_percent", "cpu_percent", "_memory",
                "memory_percent", "memory_available", "memory_used"}

\* Attributes read when now() builds its summary dict
SummaryAttrs == {"datetime", "cpu_temp", "fan_speed",
                 "percpu_percent", "memory_percent"}

NoObject == [class |-> "none", attrs |-> {}, cpu_logical_count |-> 0, datetime |-> 0]

\* Lines of the log file.
HeaderBlock == [kind |-> "header", status |-> "-", sensors |-> FALSE]
StaleLine   == [kind |-> "stale",  status |-> "-", sensors |-> FALSE]
NoRow       == [kind |-> "none",   status |-> "-", sensors |-> FALSE]

\* Entry tags.
Tags == {"PRE_RUN", "RUNNING", "POST_RUN"}

TypeOK ==
    /\ args \in [command : Commands, prewait : 0..MaxWait, interval : 0..MaxInterval,
                 postwait : 0..MaxWait, advanced : BOOLEAN]
    /\ sensor \in SensorStates
    /\ pc \in {"L137", "L138", "L146", "L149", "exit"}
    /\ s.class \in {"none", "stats", "advanced_stats"}
    /\ log \in Seq([kind : {"header", "stale", "entry"}, status : Tags \cup {"-"}, sensors : BOOLEAN])
    /\ raised.exc \in {"none", "PsutilError", "OSError", "FileNotFoundError",
                       "AttributeError", "TypeError", "NameError"}
    /\ exitStatus \in {0, 1}
    /\ clock \in 0..MaxClock
    /\ calls \in [now : Nat, istats : Nat]

\* State after args = parser.parse_args() (line 135).  The log file may
\* already exist from an earlier session.
Init ==
    /\ args \in [command : Commands, prewait : 0..MaxWait, interval : 0..MaxInterval,
                 postwait : 0..MaxWait, advanced : BOOLEAN]
    /\ sensor \in SensorStates
    /\ pc = "L137"
    /\ s = NoObject
    /\ log \in {<<>>, <<StaleLine>>}
    /\ raised = NoExc
    /\ exitStatus = 0
    /\ clock = 0
    /\ calls = [now |-> 0, istats |-> 0]

\* Variant: a catch-all handler around the script that ends the process
\* with the default status.
CrashSwallowed(exc, line) ==
    /\ pc' = "exit"
    /\ raised' = [exc |-> exc, line |-> line]
    /\ exitStatus' = 0

\* Exit status of the interpreter after an uncaught exception: the script
\* has no try/except and no sys.exit, so it is 1 whatever the exception.
UncaughtStatus(exc) == 1

\* An exception nobody catches: traceback, interpreter exits with status 1.
Crash(exc, line) ==
    /\ pc' = "exit"
    /\ raised' = [exc |-> exc, line |-> line]
    /\ exitStatus' = UncaughtStatus(exc)

\* s = stats(computer=..., command=...): always the base class, whatever
\* args.advanced is.
SamplerClass(advanced) == "stats"

\* stats.__init__: three psutil queries.
StatsInit ==
    /\ pc = "L137"
    /\ \E ok \in BOOLEAN, cores \in 1..MaxCores :
         IF ok
         THEN /\ s' = [class |-> SamplerClass(args.advanced), attrs |-> InitAttrs,
                       cpu_logical_count |-> cores, datetime |-> 0]
              /\ pc' = "L138"
              /\ UNCHANGED <<raised, exitStatus>>
         ELSE /\ Crash("PsutilError", 59)
              /\ UNCHANGED s
    /\ UNCHANGED <<args, sensor, log, clock, calls>>

\* Variant: the header is written with the file opened in append mode.
WriteHeaderAppend ==
    /\ pc = "L138"
    /\ \E ok \in BOOLEAN :
         IF ok
         THEN /\ log' = Append(log, HeaderBlock)
              /\ pc' = "L146"
              /\ UNCHANGED <<raised, exitStatus>>
         ELSE /\ Crash("OSError", 138)
              /\ UNCHANGED log
    /\ UNCHANGED <<args, sensor, s, clock, calls>>

\* with open(args.logfile, 'w') as f: six header prints.
WriteHeader ==
    /\ pc = "L138"
    /\ \E ok \in BOOLEAN :
         IF ok
         THEN /\ log' = <<HeaderBlock>>
              /\ pc' = "L146"
              /\ UNCHANGED <<raised, exitStatus>>
         ELSE /\ Crash("OSError", 138)
              /\ UNCHANGED log
    /\ UNCHANGED <<args, sensor, s, clock, calls>>

\* Result of a call that raised before producing a value.
NoSummary == [datetime |-> 0, sensors |-> "none"]

\* stats.now(): stamp the time, query psutil, build the summary dict from the
\* object's attributes.  No sensor tool is run.  Reading an attribute the
\* object does not have raises AttributeError.
StatsNow(self, t, metricsOK) ==
    LET stamped == [self EXCEPT !.attrs = @ \cup {"datetime"}, !.datetime = t]
        sampled == [stamped EXCEPT !.attrs = @ \cup MetricAttrs]
    IN  IF ~metricsOK
        THEN [exc |-> "PsutilError", line |-> 65, self |-> stamped,
              summary |-> NoSummary, istats |-> 0]
        ELSE IF SummaryAttrs \subseteq sampled.attrs
        THEN [exc |-> "none", line |-> 0, self |-> sampled,
              summary |-> [datetime |-> t, sensors |-> "stale"], istats |-> 0]
        ELSE [exc |-> "AttributeError", line |-> 73, self |-> sampled,
              summary |-> NoSummary, istats |-> 0]

\* advanced_stats.now(): stamp the time, run `istats` and parse its CPU and
\* Fan lines, then query psutil and build the summary.
AdvancedStatsNow(self, t, tool, metricsOK) ==
    LET stamped == [self EXCEPT !.attrs = @ \cup {"datetime"}, !.datetime = t]
        sensed  == [stamped EXCEPT !.attrs = @ \cup {"cpu_temp", "fan_speed"}]
        sampled == [sensed EXCEPT !.attrs = @ \cup MetricAttrs]
    IN  IF tool = "absent"
        THEN [exc |-> "FileNotFoundError", line |-> 84, self |-> stamped,
              summary |-> NoSummary, istats |-> 1]
        ELSE IF tool = "garbled"
        THEN [exc |-> "AttributeError", line |-> 89,
              self |-> [stamped EXCEPT !.attrs = @ \cup {"cpu_temp", "fan_speed"}],
              summary |-> NoSummary, istats |-> 1]
        ELSE IF ~metricsOK
        THEN [exc |-> "PsutilError", line |-> 92, self |-> sensed,
              summary |-> NoSummary, istats |-> 1]
        ELSE [exc |-> "none", line |-> 0, self |-> sampled,
              summary |-> [datetime |-> t,
                           sensors |-> IF tool = "silent" THEN "empty" ELSE "readings"],
              istats |-> 1]

\* s.now(), dispatched on the class of s.
Now(self, t, tool, metricsOK) ==
    IF self.class = "advanced_stats"
    THEN AdvancedStatsNow(self, t, tool, metricsOK)
    ELSE StatsNow(self, t, metricsOK)

\* log_entry(entry, logfile_path, started, cpu_logical_count, advanced):
\* the header list concatenates 'percent_cpu' with an int for each core
\* (TypeError); with no cores the row is built from the undefined name
\* `status` (NameError).  No row is ever printed.
log_entry(entry, started, cpu_logical_count, advanced) ==
    IF cpu_logical_count > 0
    THEN [exc |-> "TypeError", line |-> 109, row |-> NoRow]
    ELSE [exc |-> "NameError", line |-> 114, row |-> NoRow]

\* log_entry(s.now(), f): the argument s.now() is evaluated first; its
\* exception, or log_entry's, ends the process.
BaselineSample ==
    /\ pc = "L146"
    /\ \E metricsOK \in BOOLEAN :
         LET r == Now(s, clock, sensor, metricsOK)
             e == log_entry(r.summary, TRUE, DefaultCores, FALSE)
         IN  /\ s' = r.self
             /\ calls' = [now |-> calls.now + 1, istats |-> calls.istats + r.istats]
             /\ IF r.exc # "none"
                THEN Crash(r.exc, r.line) /\ UNCHANGED log
                ELSE IF e.exc # "none"
                THEN Crash(e.exc, e.line) /\ UNCHANGED log
                ELSE /\ log' = Append(log, e.row)
                     /\ pc' = "L149"
                     /\ UNCHANGED <<raised, exitStatus>>
    /\ UNCHANGED <<args, sensor, clock>>

\* Time passes while the process is alive.
Tick ==
    /\ pc # "exit"
    /\ clock < MaxClock
    /\ clock' = clock + 1
    /\ UNCHANGED <<args, sensor, pc, s, log, raised, exitStatus, calls>>

Next == StatsInit \/ WriteHeader \/ BaselineSample \/ Tick

Spec == Init /\ [][Next]_vars

\* ------------------------------------------------------------ observers
\* DONE: the script ran off its last line (169) without an exception.
Done == pc = "exit" /\ raised.exc = "none"

\* Phase of the controller, read off the program counter.
Phase ==
    CASE pc \in {"L137", "L138"} -> "INIT"
      [] pc \in {"L146", "L149"} -> "PRE_WAIT"
      [] pc = "exit" -> IF raised.exc = "none" THEN "DONE" ELSE "FAILED"

\* Number of log entries carrying a tag.
CountTag(tag) ==
    Cardinality({i \in DOMAIN log : log[i].kind = "entry" /\ log[i].status = tag})

\* Lines of the two now() bodies.
SampleLines == 63..105

\* The with-block of lines 138-144 has completed: control is past it and the
\* process did not die in stats.__init__ or in open().
HeaderWritten ==
    /\ pc \notin {"L137", "L138"}
    /\ ~(pc = "exit" /\ raised.line \in {59, 138})

\* proc.Popen (line 157) has been executed: control ran to the end of the
\* script or died at a later line of __main__.
ChildLaunched ==
    pc = "exit" /\ (raised.exc = "none" \/ raised.line > 157)

\* Number of log lines of a kind.
CountKind(kind) == Cardinality({i \in DOMAIN log : log[i].kind = kind})

\* a is an initial segment of b.
IsPrefix(a, b) == Len(a) <= Len(b) /\ SubSeq(b, 1, Len(a)) = a

\* Phase successions of the controller.
ForwardSteps == {<<"INIT", "PRE_WAIT">>, <<"PRE_WAIT", "RUNNING">>,
                 <<"RUNNING", "POST_WAIT">>, <<"POST_WAIT", "DONE">>}

\* ceil(a / b) for b > 0, and the larger of two numbers.
CeilDiv(a, b) == (a + b - 1) \div b
Max2(a, b) == IF a >= b THEN a ELSE b

\* -------------------------------------------------------------- claims

\* C2: with prewait = 0 and postwait = 0 and a child that exits at once, a
\* session that met no environment failure ends with exactly one pre-run
\* entry, at most one RUNNING entry and exactly one post-run entry.
C2_ZeroWaitEntries ==
    (/\ pc = "exit"
     /\ args.prewait = 0 /\ args.postwait = 0
     /\ args.command = "exits"
     /\ raised.exc \notin EnvErrors)
    => (/\ CountTag("PRE_RUN") = 1
        /\ CountTag("RUNNING") <= 1
        /\ CountTag("POST_RUN") = 1)

\* C4: with a child that never terminates the controller keeps sampling in
\* RUNNING forever; in particular the controller process never ends unless an
\* environment failure kills it.
C4_NeverTerminatingChild ==
    (args.command = "forever" /\ pc = "exit") => raised.exc \in EnvErrors

\* C5: with interval > 0, a child that exits and no environment failure, the
\* session reaches DONE; so a controller process that has ended ended in DONE.
C5_ReachesDone ==
    (/\ pc = "exit"
     /\ args.command = "exits"
     /\ args.interval > 0
     /\ raised.exc \notin EnvErrors)
    => Done

\* C8: a metrics-provider failure inside a sample ends the session at once:
\* that step and every later step leave the log as it was, the process has
\* exited with a nonzero status, and DONE is not reached.
C8_MetricsFailureFatal ==
    [][(raised'.exc = "PsutilError" /\ raised'.line \in SampleLines)
        => (/\ log' = log
            /\ pc' = "exit"
            /\ exitStatus' # 0
            /\ ~Done')]_vars

\* C8 witness: the baseline sample hit a psutil failure after the header
\* was written; the process is gone with status 1 and only the header logged.
C8_Witness ==
    /\ pc = "exit"
    /\ raised = [exc |-> "PsutilError", line |-> 65]
    /\ calls.now = 1
    /\ log = <<HeaderBlock>>
    /\ exitStatus = 1

\* C9: in advanced mode with a failing sensor tool, a session that met no
\* metrics or log-file failure completes in DONE with exit status 0.
C9_SensorFailureNonFatal ==
    (/\ pc = "exit"
     /\ args.advanced
     /\ sensor # "ok"
     /\ args.command = "exits"
     /\ raised.exc \notin {"PsutilError", "OSError"})
    => (Phase = "DONE" /\ exitStatus = 0)

\* C10: the sensor tool is run by a sample iff advanced mode is on: never
\* when advanced is off (and then no entry has sensor fields), once per
\* sample when it is on (and then every entry has sensor fields).
C10_SensorIffAdvanced ==
    /\ ~args.advanced =>
         /\ calls.istats = 0
         /\ \A i \in DOMAIN log : log[i].kind = "entry" => ~log[i].sensors
    /\ args.advanced =>
         /\ calls.istats = calls.now
         /\ \A i \in DOMAIN log : log[i].kind = "entry" => log[i].sensors

\* C11 as stated: the log is empty or starts with the header in every state,
\* the file is truncated only by the header write, and every other write
\* extends the previous content.
C11_LogEmptyOrHeaded ==
    /\ [](log = <<>> \/ log[1] = HeaderBlock)
    /\ [][(pc = "L138" /\ log' = <<HeaderBlock>>) \/ IsPrefix(log, log')]_vars

\* C11 amended: until the header is written the file is as the session found
\* it (no header or entry of this session); once the header is written the
\* log starts with it and holds it exactly once; the file is truncated only by
\* the header write, and every other write extends the previous content.
C11_HeaderOnceAndFirst ==
    /\ [](~HeaderWritten => (CountKind("header") = 0 /\ CountKind("entry") = 0))
    /\ [](HeaderWritten => (log # <<>> /\ log[1] = HeaderBlock /\ CountKind("header") = 1))
    /\ [][(pc = "L138" /\ log' = <<HeaderBlock>>) \/ IsPrefix(log, log')]_vars

\* C11 witness: the header was written and a later operation (the baseline
\* sample) has run; the log is exactly the header.
C11_Witness ==
    /\ HeaderWritten
    /\ calls.now = 1
    /\ pc = "exit"
    /\ log = <<HeaderBlock>>

\* C13: the exit status is 0 exactly when DONE is reached, and a launch,
\* metrics or log-open failure ends the process with a nonzero status that
\* no other of these failure kinds produces.
C13_ExitStatuses ==
    /\ pc = "exit" => (exitStatus = 0 <=> Done)
    /\ (pc = "exit" /\ raised.exc \in EnvErrors) =>
         /\ exitStatus # 0
         /\ \A k \in EnvErrors \ {raised.exc} : exitStatus # UncaughtStatus(k)

\* C15: the phase only steps forward along INIT, PRE_WAIT, RUNNING,
\* POST_WAIT, DONE (an environment failure may end it), and a session that
\* ended without an environment failure has launched the child.
C15_PhaseOrderAndLaunch ==
    /\ [][Phase' # Phase =>
            \/ <<Phase, Phase'>> \in ForwardSteps
            \/ (Phase' = "FAILED" /\ raised'.exc \in EnvErrors)]_vars
    /\ []((pc = "exit" /\ raised.exc \notin EnvErrors) => ChildLaunched)

\* C17: with interval I > 0 and prewait D, a session that met no environment
\* failure has logged max(1, ceil(D / I)) pre-run snapshots when it ends.
C17_WaitPhaseCount ==
    (/\ pc = "exit"
     /\ args.interval > 0
     /\ raised.exc \notin EnvErrors)
    => CountTag("PRE_RUN") = Max2(1, CeilDiv(args.prewait, args.interval))
====
